---- MODULE Spec2Model ----
(***************************************************************************)
(* A model of finn-wa/azure-time-series-table-storage:                     *)
(*   - DataGenerator.ts: generateHourlyData, getWaterLevel, makeCycle      *)
(*   - PromiseTableService.ts: the promise wrapper of azure-storage        *)
(*   - main.ts: the test harness                                           *)
(*                                                                         *)
(* JavaScript numbers are IEEE-754 binary64.  The generator's numbers are  *)
(* modelled exactly: a non-negative double of the generator is a multiple  *)
(* of 2^-57 (the unit in the last place of 1/24) below 2^83, held as a     *)
(* natural number of such units in seven little-endian limbs of 20 bits.   *)
(* Every arithmetic operation is the exact operation followed by rounding  *)
(* to 53 significant bits, ties to even.                                   *)
(***************************************************************************)
EXTENDS Integers, Sequences, FiniteSets, TLC

(***************************************************************************)
(* Natural numbers of 140 bits                                             *)
(***************************************************************************)
Limbs == 1..7
Base == 2^20
FracBits == 57

\* F applied to the value of v: v is evaluated once, before F uses it
Let(v, F(_)) == CHOOSE r \in {F(t) : t \in {v}} : TRUE

Zero == [i \in Limbs |-> 0]
Small(n) == [i \in Limbs |-> IF i = 1 THEN n ELSE 0]

RECURSIVE CarryIn(_, _, _)
CarryIn(a, b, i) ==
  IF i = 1 THEN 0 ELSE (a[i-1] + b[i-1] + CarryIn(a, b, i-1)) \div Base

Add(a, b) == [i \in Limbs |-> (a[i] + b[i] + CarryIn(a, b, i)) % Base]

RECURSIVE BorrowIn(_, _, _)
BorrowIn(a, b, i) ==
  IF i = 1 THEN 0
  ELSE IF a[i-1] - b[i-1] - BorrowIn(a, b, i-1) < 0 THEN 1 ELSE 0

\* a - b, for a >= b
Sub(a, b) == [i \in Limbs |-> (a[i] - b[i] - BorrowIn(a, b, i) + Base) % Base]

RECURSIVE MulCarry(_, _, _)
MulCarry(a, c, i) ==
  IF i = 1 THEN 0 ELSE (a[i-1] * c + MulCarry(a, c, i-1)) \div Base

\* a * c, for 0 <= c <= 1024
MulSmall(a, c) == [i \in Limbs |-> (a[i] * c + MulCarry(a, c, i)) % Base]

RECURSIVE LessFrom(_, _, _)
LessFrom(a, b, i) ==
  IF i = 0 THEN FALSE
  ELSE IF a[i] # b[i] THEN a[i] < b[i]
  ELSE LessFrom(a, b, i-1)

Less(a, b) == LessFrom(a, b, 7)

RECURSIVE TopLimb(_, _)
TopLimb(a, i) == IF i = 0 THEN 0 ELSE IF a[i] # 0 THEN i ELSE TopLimb(a, i-1)

RECURSIVE Width(_)
Width(n) == IF n = 0 THEN 0 ELSE 1 + Width(n \div 2)

BitLen(a) ==
  LET t == TopLimb(a, 7) IN IF t = 0 THEN 0 ELSE 20 * (t - 1) + Width(a[t])

\* bit k of a, k = 0 the lowest
Bit(a, k) == (a[(k \div 20) + 1] \div 2^(k % 20)) % 2

\* the bits of a below bit k are all 0
LowZero(a, k) ==
  /\ \A i \in Limbs : i <= k \div 20 => a[i] = 0
  /\ (k \div 20) + 1 \in Limbs => a[(k \div 20) + 1] % 2^(k % 20) = 0

\* a with its bits below bit k cleared
ClearLow(a, k) ==
  [i \in Limbs |->
     IF i <= k \div 20 THEN 0
     ELSE IF i = (k \div 20) + 1 THEN a[i] - (a[i] % 2^(k % 20))
     ELSE a[i]]

Pow2(k) == [i \in Limbs |-> IF i = (k \div 20) + 1 THEN 2^(k % 20) ELSE 0]

ShiftLeft(a, s) ==
  LET q == s \div 20
      r == s % 20
      Lo(i) == IF i - q \in Limbs THEN (a[i-q] % 2^(20 - r)) * 2^r ELSE 0
      Hi(i) == IF i - q - 1 \in Limbs THEN a[i-q-1] \div 2^(20 - r) ELSE 0
  IN  [i \in Limbs |-> Lo(i) + Hi(i)]

ShiftRight(a, s) ==
  LET q == s \div 20
      r == s % 20
      Lo(i) == IF i + q \in Limbs THEN a[i+q] \div 2^r ELSE 0
      Hi(i) == IF i + q + 1 \in Limbs THEN (a[i+q+1] % 2^r) * 2^(20 - r) ELSE 0
  IN  [i \in Limbs |-> Lo(i) + Hi(i)]

\* the integer part of a number of 2^-57 units, as an integer below 2^20
IntPart(a) == (a[3] \div 2^17) + (a[4] % 2^17) * 2^3

(***************************************************************************)
(* IEEE-754 binary64 operations on numbers of 2^-57 units                  *)
(***************************************************************************)
\* round to nearest, ties to even, at 53 significant bits; sticky says that
\* the exact value lies strictly above a
Round53(a, sticky) ==
  LET s == BitLen(a) - 53 IN
  IF s <= 0 THEN a
  ELSE LET guard == Bit(a, s - 1) = 1
           rest  == ~LowZero(a, s - 1) \/ sticky
           odd   == Bit(a, s) = 1
           t     == ClearLow(a, s)
       IN  IF guard /\ (rest \/ odd) THEN Add(t, Pow2(s)) ELSE t

\* the integer n (0 <= n < 2^20) as a double
Num(n) == ShiftLeft(Small(n), FracBits)

FAdd(a, b) == Let(Add(a, b), LAMBDA t : Round53(t, FALSE))

\* a * c for an integer 0 <= c < 1024
FMul(a, c) == Let(MulSmall(a, c), LAMBDA t : Round53(t, FALSE))

\* the ten bits 10j .. 10j+9 of a
Chunk(a, j) == (a[(j \div 2) + 1] \div 2^(10 * (j % 2))) % 1024

\* the largest q in 0..31 with (b * m) * q <= r, for r < (b * m) * 32
Digit(r, b, m) ==
  CHOOSE q \in 0..31 :
    /\ ~Less(r, MulSmall(b, m * q))
    /\ Less(r, MulSmall(b, m * (q + 1)))

\* one step of long division in base 1024: <<Q, R>> with the chunk j of A
\* brought down, R < b before and after
DivStep(A, b, j, Q, R) ==
  Let(Add(MulSmall(R, 1024), Small(Chunk(A, j))),
      LAMBDA r :
        Let(Digit(r, b, 32),
            LAMBDA h :
              Let(Sub(r, MulSmall(b, 32 * h)),
                  LAMBDA r1 :
                    Let(Digit(r1, b, 1),
                        LAMBDA l :
                          <<Add(MulSmall(Q, 1024), Small(32 * h + l)),
                            Sub(r1, MulSmall(b, l))>>))))

\* <<A \div b, A % b>>, the chunks below j of A still to bring down
RECURSIVE DivLoop(_, _, _, _, _)
DivLoop(A, b, j, Q, R) ==
  IF j = 0 THEN <<Q, R>>
  ELSE Let(DivStep(A, b, j - 1, Q, R),
           LAMBDA st : DivLoop(A, b, j - 1, st[1], st[2]))

\* <<A \div b, A % b>>: the chunks of A above n are below b
Divide(A, b) ==
  LET d == BitLen(A) - BitLen(b) + 1
      n == IF d <= 0 THEN 0 ELSE (d + 9) \div 10
  IN  DivLoop(A, b, n, Zero, ShiftRight(A, 10 * n))

\* the quotient <<Q, R>> of an exact division rounded to a double
RoundQuotient(Q, R, b) ==
  Let(MulSmall(R, 2),
      LAMBDA R2 :
        IF BitLen(Q) > 53 THEN Round53(Q, R # Zero)
        ELSE IF Less(b, R2) \/ (R2 = b /\ Bit(Q, 0) = 1) THEN Add(Q, Small(1))
        ELSE Q)

\* a / b for b > 0 and a = 0 or a / b >= 2^-5 (the quotients of the generator)
FDiv(a, b) ==
  Let(ShiftLeft(a, FracBits),
      LAMBDA A : Let(Divide(A, b),
                     LAMBDA qr : RoundQuotient(qr[1], qr[2], b)))

\* Math.ceil of a non-negative double below 2^20
Ceil(a) == IntPart(a) + (IF LowZero(a, FracBits) THEN 0 ELSE 1)

\* the integer part of a double (TimeClip's ToIntegerOrInfinity), as a double
Trunc(a) == ClearLow(a, FracBits)

(***************************************************************************)
(* The state                                                               *)
(***************************************************************************)
VARIABLES
  tz,            \* the process's local time zone: hours east of UTC
  durationDays,  \* generateHourlyData's argument, in 1/32 of a day
  gpc,           \* where generateHourlyData is: idle, call, range, map, done
  startTime,     \* generateHourlyData's startTime
  step,          \* baseRange's step
  length,        \* baseRange's length, counting down
  start,         \* baseRange's start, counting up
  result,        \* baseRange's result
  samples,       \* the array map builds: generateHourlyData's return value
  calls,         \* the parameters of the last three makeCycle invocations
  thrown         \* the error generateHourlyData threw, or "none"

genVars == <<tz, durationDays, gpc, startTime, step, length, start, result,
             samples, calls, thrown>>

VARIABLES
  svc,           \* PromiseTableService.svc: "uninitialised" or "TableService"
  ctorArgs,      \* the arguments the constructor was called with
  created,       \* the argument lists createTableService was called with
  tables,        \* the storage account: table name |-> number of entities
  request,       \* the promisified call in progress, <<>> when none
  promise,       \* the promise the wrapper returned for it
  callbacks,     \* how many times its completion callback was invoked
  firstCallback, \* the arguments of the first invocation
  before,        \* the storage account when the call was made
  ncalls,        \* the calls the client has made
  cpc,           \* the client: new, ready
  cthrown        \* the error a wrapper method threw at the client, or "none"

svcVars == <<svc, ctorArgs, created, tables, request, promise, callbacks,
             firstCallback, before, ncalls, cpc, cthrown>>

VARIABLES
  connectionString, \* process.env.AZURE_STORAGE_CONNECTION_STRING
  mpc,              \* where main is
  log,              \* what console.log printed
  mthrown,          \* the message of the error main threw, or "none"
  queueExists,      \* whether water-level-queue exists
  queue,            \* its messages, oldest first: [id, visible]
  sent,             \* the readings main has sent and received for
  received,         \* the ids main's receiveMessages returned
  interfered,       \* another client of the account changed its tables
  faults            \* the requests the service failed to answer

mainVars == <<connectionString, mpc, log, mthrown, queueExists, queue, sent,
              received, interfered, faults>>

vars == <<genVars, svcVars, mainVars>>

\* no table
NoTables == [t \in {} |-> 0]

\* a promise that does not exist yet
NoPromise == [state |-> "none", error |-> "none", result |-> "none",
              response |-> "none"]

\* no call of a TableService function is in flight
NoRequest == [op |-> "none", fn |-> "none", kind |-> "none", args |-> <<>>,
              thrown |-> "none"]

\* no invocation of a callback
NoCallback == [err |-> "none", result |-> "none", response |-> "none"]

\* generateHourlyData is not running
IdleGenerator ==
  /\ durationDays = 0
  /\ gpc = "idle"
  /\ startTime = Zero
  /\ step = Zero
  /\ length = 0
  /\ start = Zero
  /\ result = <<>>
  /\ samples = <<>>
  /\ calls = <<>>
  /\ thrown = "none"

\* no PromiseTableService exists, nothing was asked of the storage account
IdleService ==
  /\ svc = "uninitialised"
  /\ ctorArgs = <<>>
  /\ created = <<>>
  /\ request = NoRequest
  /\ promise = NoPromise
  /\ callbacks = 0
  /\ firstCallback = NoCallback
  /\ before = NoTables
  /\ ncalls = 0
  /\ cpc = "new"
  /\ cthrown = "none"

\* main is not running
IdleMain ==
  /\ connectionString = "undefined"
  /\ mpc = "idle"
  /\ log = <<>>
  /\ mthrown = "none"
  /\ queueExists = FALSE
  /\ queue = <<>>
  /\ sent = 0
  /\ received = <<>>
  /\ interfered = 0
  /\ faults = 0

(***************************************************************************)
(* Bounds and inputs                                                       *)
(***************************************************************************)
\* the longest duration generated, in days
MaxDays == 64

\* the loop iterations one step of the model takes: baseRange's loop and
\* map are synchronous, nothing observes them between two iterations
Batch == 16

\* the entities a table holds at most
MaxEntities == 1

\* the calls the client makes at most
MaxCalls == 2

\* the messages water-level-queue holds at most when main starts
MaxLeftover == 1

\* most invocations of one completion callback by the TableService
MaxCallbacks == 2

\* most faulty answers of the storage service in a run
MaxFaults == 1

\* most deletions of a table by another client of the storage account
MaxInterference == 1

\* the durations generated, in 1/32 of a day: negative, zero, fractions of
\* an hour, whole hours, main's seven days, and MaxDays
Durations == {-32, -1, 0, 1, 5, 32, 7 * 32, MaxDays * 32}

\* local time zones: New York (EST), UTC, Auckland (NZDT)
TimeZones == {-5, 0, 13}

(***************************************************************************)
(* DataGenerator.ts                                                        *)
(***************************************************************************)
\* ECMAScript DayFromYear: the day number of 1 January of year y
DayFromYear(y) ==
  365 * (y - 1970) + ((y - 1969) \div 4) - ((y - 1901) \div 100)
    + ((y - 1601) \div 400)

\* n hours in milliseconds, n >= 0, exactly
HoursMs(n) == MulSmall(MulSmall(MulSmall(Num(n), 60), 60), 1000)

\* new Date(2020, 0, 1, 0).getTime() in time zone z: local midnight of
\* 1 January 2020 as milliseconds since the epoch, UTC
StartTime(z) ==
  Let(HoursMs(24 * DayFromYear(2020)),
      LAMBDA t : IF z >= 0 THEN Sub(t, HoursMs(z)) ELSE Add(t, HoursMs(-z)))

\* the magnitude of a duration of d 1/32 days, in days, as a double
Days(d) == ShiftLeft(Small(IF d < 0 THEN -d ELSE d), FracBits - 5)

Max(a, b) == IF a >= b THEN a ELSE b

\* Math.floor of a non-negative double below 2^20
Floor(a) == IntPart(a)

\* RangeLength with Math.floor in place of nativeCeil
RangeLengthFloor(d, st) ==
  Let(FDiv(Days(d), st),
      LAMBDA q : IF d < 0 THEN Max(-Ceil(q), 0) ELSE Max(Floor(q), 0))

\* RangeLength without nativeMax(..., 0)
RangeLengthUnclamped(d, st) ==
  Let(FDiv(Days(d), st), LAMBDA q : IF d < 0 THEN -Floor(q) ELSE Ceil(q))

\* lodash baseRange: nativeMax(nativeCeil((end - start) / (step || 1)), 0)
\* for start = 0 and end = d / 32
RangeLength(d, st) ==
  Let(FDiv(Days(d), st),
      LAMBDA q : IF d < 0 THEN Max(-Floor(q), 0) ELSE Max(Ceil(q), 0))

Periods == {365, 10, 1}

\* parameter i of a call with arguments args, or its default
Param(args, i, default) == IF i <= Len(args) THEN args[i] ELSE default

\* the parameters of makeCycle(x, amplitude = 1, period = 1, trend = 0,
\* yShift = 0) called with args; amplitude, trend and yShift in hundredths
CycleParams(args) ==
  [x         |-> args[1],
   amplitude |-> Param(args, 2, 100),
   period    |-> Param(args, 3, 1),
   trend     |-> Param(args, 4, 0),
   yShift    |-> Param(args, 5, 0)]

\* a number that depends on cosines: the sum over the periods p of
\* amp[p] * cos(x * (2 * pi / p)), plus trend * x + shift, in hundredths
Cyclic(xv, a, t, s) == [x |-> xv, amp |-> a, trend |-> t, shift |-> s]

\* amplitude * Math.cos(x * ((2 * Math.PI) / period)) + trend * x + yShift
makeCycle(args) ==
  LET p == CycleParams(args)
  IN  Cyclic(p.x, [q \in Periods |-> IF q = p.period THEN p.amplitude ELSE 0],
             p.trend, p.yShift)

\* u + v, for two numbers at the same x
Plus(u, v) ==
  Cyclic(u.x, [q \in Periods |-> u.amp[q] + v.amp[q]],
         u.trend + v.trend, u.shift + v.shift)

\* WaterLevelCalls with the daily usage's -0.5 passed as yShift
WaterLevelCallsDailyShift(xv) ==
  << <<xv, -3000, 365, 0, 5000>>,
     <<xv, -50, 10, 50>>,
     <<xv, -15, 1, 0, -50>> >>

\* the arguments of getWaterLevel's three calls of makeCycle
WaterLevelCalls(xv) ==
  << <<xv, -3000, 365, 0, 5000>>,   \* Yearly seasonal cycle
     <<xv, -50, 10, 50>>,           \* Rainfall
     <<xv, -15, 1, -50>> >>         \* Daily usage

getWaterLevel(xv) ==
  LET c == WaterLevelCalls(xv)
  IN  Plus(Plus(makeCycle(c[1]), makeCycle(c[2])), makeCycle(c[3]))

\* new Date(x * 24 * 60 * 60 * 1000 + startTime): the time value of the Date
NewDate(xv, st) ==
  Let(FMul(xv, 24), LAMBDA a :
  Let(FMul(a, 60), LAMBDA b :
  Let(FMul(b, 60), LAMBDA c :
  Let(FMul(c, 1000), LAMBDA d :
  Let(FAdd(d, st), LAMBDA e : Trunc(e))))))

\* the callback of map
Sample(xv, st) == [waterLevel |-> getWaterLevel(xv), date |-> NewDate(xv, st)]

\* generateHourlyData(durationDays) is called: startTime is read from the
\* local clock's zone, range's arguments are evaluated, baseRange sizes its
\* result (Array(length) throws a RangeError for a negative length)
GenCall ==
  /\ gpc = "call"
  /\ \E st \in {FDiv(Num(1), Num(24))} :
       \E len \in {RangeLength(durationDays, st)} :
         /\ startTime' = StartTime(tz)
         /\ step' = st
         /\ start' = Zero
         /\ length' = Max(len, 0)
         /\ thrown' = IF len < 0 THEN "RangeError" ELSE "none"
         /\ gpc' = IF len < 0 THEN "done" ELSE "range"
  /\ UNCHANGED <<tz, durationDays, result, samples, calls>>
  /\ UNCHANGED <<svcVars, mainVars>>

Min(a, b) == IF a <= b THEN a ELSE b

\* n iterations of baseRange's loop, from <<result, start>>
RECURSIVE RangeLoop(_, _, _, _)
RangeLoop(res, s, st, n) ==
  IF n = 0 THEN <<res, s>>
  ELSE Let(<<Append(res, s), FAdd(s, st)>>,
           LAMBDA p : RangeLoop(p[1], p[2], st, n - 1))

\* baseRange's loop: while (length--) { result[++index] = start; start += step }
RangeStep ==
  /\ gpc = "range"
  /\ length > 0
  /\ \E p \in {RangeLoop(result, start, step, Min(length, Batch))} :
       /\ result' = p[1]
       /\ start' = p[2]
  /\ length' = length - Min(length, Batch)
  /\ UNCHANGED <<tz, durationDays, gpc, startTime, step, samples, calls, thrown>>
  /\ UNCHANGED <<svcVars, mainVars>>

\* baseRange returns result, and map begins
RangeReturn ==
  /\ gpc = "range"
  /\ length = 0
  /\ gpc' = "map"
  /\ UNCHANGED <<tz, durationDays, startTime, step, length, start, result,
                 samples, calls, thrown>>
  /\ UNCHANGED <<svcVars, mainVars>>

\* map calls its callback on the next elements of the range, in order
MapStep ==
  /\ gpc = "map"
  /\ Len(samples) < Len(result)
  /\ LET n == Min(Len(result) - Len(samples), Batch)
     IN  /\ samples' = samples \o
               [i \in 1..n |-> Sample(result[Len(samples) + i], startTime)]
         /\ calls' = [i \in 1..3 |->
               CycleParams(WaterLevelCalls(result[Len(samples) + n])[i])]
  /\ UNCHANGED <<tz, durationDays, gpc, startTime, step, length, start, result,
                 thrown>>
  /\ UNCHANGED <<svcVars, mainVars>>

\* generateHourlyData returns the mapped array
GenReturn ==
  /\ gpc = "map"
  /\ Len(samples) = Len(result)
  /\ gpc' = "done"
  /\ UNCHANGED <<tz, durationDays, startTime, step, length, start, result,
                 samples, calls, thrown>>
  /\ UNCHANGED <<svcVars, mainVars>>

\* one call of generateHourlyData, in any time zone, with any duration
InitGenerator ==
  /\ tz \in TimeZones
  /\ durationDays \in Durations
  /\ gpc = "call"
  /\ startTime = Zero
  /\ step = Zero
  /\ length = 0
  /\ start = Zero
  /\ result = <<>>
  /\ samples = <<>>
  /\ calls = <<>>
  /\ thrown = "none"
  /\ tables = NoTables
  /\ IdleService
  /\ IdleMain

NextGenerator ==
  \/ GenCall
  \/ RangeStep
  \/ RangeReturn
  \/ MapStep
  \/ GenReturn

SpecGenerator == InitGenerator /\ [][NextGenerator]_vars

(***************************************************************************)
(* The claims about generateHourlyData                                     *)
(***************************************************************************)
\* the samples the last step of map made: every sample is one of them in
\* the state after the step that mapped it
Recent == {i \in DOMAIN samples : i > Len(samples) - Batch}

\* ceil(d * 24 / 32), computed in integers
ExpectedCount(d) == (3 * d + 3) \div 4

\* C1: for every durationDays >= 0, generateHourlyData returns
\* durationDays * 24 samples when that is an integer and
\* ceil(durationDays * 24) samples otherwise: none for 0, 168 for 7
C1_SampleCount ==
  (gpc = "done" /\ durationDays >= 0) =>
     /\ thrown = "none"
     /\ Len(samples) = ExpectedCount(durationDays)
     /\ (durationDays = 0 => samples = <<>>)
     /\ (durationDays = 7 * 32 => Len(samples) = 168)

C1_Witness ==
  gpc = "done" /\ durationDays = 7 * 32 /\ Len(samples) = 168

\* C2: the first sample's timestamp is the reference epoch, timestamps are
\* strictly ascending, consecutive samples are exactly 3,600,000 ms apart:
\* sample i (from 0) has timestamp startTime + i * 3,600,000 ms
C2_HourlySpacing ==
  \A i \in Recent :
     /\ samples[i].date = Add(startTime, HoursMs(i - 1))
     /\ i >= 2 =>
          /\ Less(samples[i - 1].date, samples[i].date)
          /\ Sub(samples[i].date, samples[i - 1].date) = HoursMs(1)

\* cycle(x, a, p, t, s) = a * cos(2 * pi * x / p) + t * x + s
SpecCycle(xv, a, p, t, s) ==
  Cyclic(xv, [q \in Periods |-> IF q = p THEN a ELSE 0], t, s)

\* the value of a number that depends on cosines, at x = 0: cos(0) = 1
ValueAtZero(v) == v.amp[365] + v.amp[10] + v.amp[1] + v.shift

\* C3: the value of every sample is cycle(x,-30,365,0,50) +
\* cycle(x,-0.5,10,0,0.5) + cycle(x,-0.15,1,0,-0.5) in exact arithmetic,
\* the cosine uninterpreted; at x = 0 it is 19.35
C3_WaterLevelFormula ==
  \A i \in Recent :
     /\ samples[i].waterLevel =
          Plus(Plus(SpecCycle(result[i], -3000, 365, 0, 5000),
                    SpecCycle(result[i], -50, 10, 0, 50)),
               SpecCycle(result[i], -15, 1, 0, -50))
     /\ (result[i] = Zero => ValueAtZero(samples[i].waterLevel) = 1935)

C3_Witness ==
  \E i \in Recent :
     /\ samples[i].waterLevel.x # Zero
     /\ samples[i].waterLevel.trend = 0
     /\ samples[i].waterLevel.shift = 5000

C5_EnvironmentIndependent ==
  \A i \in Recent :
     \A z \in TimeZones : samples[i] = Sample(result[i], StartTime(z))

\* C9: in each of the three invocations of cycle the trend argument is 0,
\* and the shift arguments are 50, 0.5 and -0.5
C9_TrendZero ==
  calls # <<>> =>
     /\ \A i \in 1..3 : calls[i].trend = 0
     /\ calls[1].yShift = 5000
     /\ calls[2].yShift = 50
     /\ calls[3].yShift = -50


(***************************************************************************)
(* PromiseTableService.  JavaScript values are strings here: "undefined",  *)
(* "null" and "" are the falsy ones among them.  The storage account is    *)
(* the function tables from the names of its tables to the number of       *)
(* entities each holds.                                                    *)
(***************************************************************************)

\* JavaScript truthiness of a value
Truthy(v) == v \notin {"undefined", "null", ""}

\* the values a constructor argument takes in the model
ConnectionStrings == {"undefined", "null", "", "str"}

AccessKeys == {"undefined", "key"}

Hosts == {"undefined", "host"}

\* the table names a caller passes; "" is not a valid table name
TableNames == {"test", ""}

\* the calls of createTableService the constructor makes, each an argument list
CtorCalls(cs, key, host) ==
  IF Truthy(cs) /\ Truthy(key) THEN << <<cs, key, host>> >>
  ELSE IF Truthy(cs) THEN << <<cs>> >>
  ELSE IF cs = "undefined" THEN << <<>> >>
  ELSE <<>>

\* new PromiseTableService(cs, key, host)
Construct(cs, key, host) ==
  /\ ctorArgs' = <<cs, key, host>>
  /\ created' = CtorCalls(cs, key, host)
  /\ svc' = IF CtorCalls(cs, key, host) = <<>> THEN "uninitialised"
            ELSE "TableService"

\* the promisified operations of the model
Ops == {"doesTableExist", "createTable", "createTableIfNotExists",
        "deleteTable", "deleteTableIfExists"}

\* the TableService function each operation hands to its wrapper
WrapperFn(op) ==
  IF op = "deleteTableIfExists" THEN "createTable" ELSE op

\* the wrapper each operation uses: promiseResult or promiseResponse
WrapperKind(op) == IF op = "deleteTable" THEN "response" ELSE "result"

\* args.push(promiseHandling)
PushCallback(args) == Append(args, "promiseHandling")

\* what the TableService function throws before it sends anything
FnThrows(fn, args) == IF args[1] = "" THEN "ArgumentNullError" ELSE "none"

Pending == [state |-> "pending", error |-> "none", result |-> "none",
            response |-> "none"]

Rejected(err) == [state |-> "rejected", error |-> err, result |-> "none",
                  response |-> "none"]

Resolved(res, resp) == [state |-> "resolved", error |-> "none",
                        result |-> res, response |-> resp]

\* a promise whose later resolve and reject calls replace the outcome
SettleLast(p, outcome) == outcome

\* resolve and reject act on a pending promise only
Settle(p, outcome) == IF p.state = "pending" THEN outcome ELSE p

\* promiseHandling of promiseResult (err, result, response) and of
\* promiseResponse (err, response)
PromiseHandling(kind, p, cb) ==
  Settle(p, IF Truthy(cb.err) THEN Rejected(cb.err)
            ELSE IF kind = "result" THEN Resolved(cb.result, cb.response)
            ELSE Resolved("none", cb.response))

\* the wrapper: new Promise(...), args.push(promiseHandling),
\* fn.apply(this.svc, args); a throw of fn inside the executor rejects
Invoke(op, table, options) ==
  LET args == PushCallback(<<table, options>>)
      err  == FnThrows(WrapperFn(op), args)
  IN /\ request' = [op |-> op, fn |-> WrapperFn(op), kind |-> WrapperKind(op),
                    args |-> args, thrown |-> err]
     /\ promise' = IF err = "none" THEN Pending ELSE Rejected(err)
     /\ callbacks' = 0
     /\ firstCallback' = NoCallback
     /\ before' = tables

Without(tbls, t) == [u \in DOMAIN tbls \ {t} |-> tbls[u]]

With(tbls, t) == [u \in DOMAIN tbls \cup {t} |-> IF u = t THEN 0 ELSE tbls[u]]

Callback(e, res, resp) == [err |-> e, result |-> res, response |-> resp]

\* what the storage service does with a call of fn on table t, and the
\* arguments its TableService passes to the completion callback
Answer(fn, t, tbls) ==
  IF fn = "createTable" THEN
    IF t \in DOMAIN tbls
      THEN [tables |-> tbls,
            cb |-> Callback("TableAlreadyExists", "null", "409")]
      ELSE [tables |-> With(tbls, t), cb |-> Callback("null", "TableResult", "201")]
  ELSE IF fn = "createTableIfNotExists" THEN
    IF t \in DOMAIN tbls
      THEN [tables |-> tbls, cb |-> Callback("null", "TableResult", "409")]
      ELSE [tables |-> With(tbls, t), cb |-> Callback("null", "TableResult", "201")]
  ELSE IF fn = "deleteTable" THEN
    IF t \in DOMAIN tbls
      THEN [tables |-> Without(tbls, t), cb |-> Callback("null", "none", "204")]
      ELSE [tables |-> tbls, cb |-> Callback("ResourceNotFound", "none", "404")]
  ELSE
    [tables |-> tbls,
     cb |-> Callback("null", IF t \in DOMAIN tbls THEN "true" ELSE "false", "200")]

\* a call is in flight and its callback has not been invoked
InFlight ==
  /\ request.op # "none"
  /\ request.thrown = "none"
  /\ callbacks = 0

\* the storage service answers the call in flight
ServiceAnswer ==
  /\ InFlight
  /\ \E a \in {Answer(request.fn, request.args[1], tables)} :
       /\ tables' = a.tables
       /\ promise' = PromiseHandling(request.kind, promise, a.cb)
       /\ firstCallback' = a.cb
  /\ callbacks' = 1
  /\ UNCHANGED <<svc, ctorArgs, created, request, before, ncalls, cpc, cthrown>>
  /\ UNCHANGED <<genVars, mainVars>>

\* the storage service fails the call in flight and changes nothing
ServiceFault ==
  /\ InFlight
  /\ faults < MaxFaults
  /\ faults' = faults + 1
  /\ \E cb \in {Callback("ServiceFault", "null", "500")} :
       /\ promise' = PromiseHandling(request.kind, promise, cb)
       /\ firstCallback' = cb
  /\ callbacks' = 1
  /\ UNCHANGED <<svc, ctorArgs, created, tables, request, before, ncalls, cpc,
                 cthrown>>
  /\ UNCHANGED <<genVars, connectionString, mpc, log, mthrown, queueExists,
                 queue, sent, received, interfered>>

\* the completion callback of the call in flight is invoked once more
CallbackAgain ==
  /\ request.op # "none"
  /\ callbacks >= 1
  /\ callbacks < MaxCallbacks
  /\ \E e \in {"null", "LateError"} :
       promise' = PromiseHandling(request.kind, promise,
                                  Callback(e, "late", "late"))
  /\ callbacks' = callbacks + 1
  /\ UNCHANGED <<svc, ctorArgs, created, tables, request, firstCallback,
                 before, ncalls, cpc, cthrown>>
  /\ UNCHANGED <<genVars, mainVars>>

(***************************************************************************)
(* A caller of PromiseTableService: constructs it, may set the             *)
(* TableService itself, and calls the promisified operations one after     *)
(* the other.                                                              *)
(***************************************************************************)

New ==
  /\ cpc = "new"
  /\ \E cs \in ConnectionStrings, key \in AccessKeys, host \in Hosts :
       Construct(cs, key, host)
  /\ cpc' = "ready"
  /\ UNCHANGED <<tables, request, promise, callbacks, firstCallback, before,
                 ncalls, cthrown>>
  /\ UNCHANGED <<genVars, mainVars>>

setTableService ==
  /\ cpc = "ready"
  /\ svc = "uninitialised"
  /\ svc' = "TableService"
  /\ UNCHANGED <<ctorArgs, created, tables, request, promise, callbacks,
                 firstCallback, before, ncalls, cpc, cthrown>>
  /\ UNCHANGED <<genVars, mainVars>>

\* this.svc.<fn> on an uninitialised svc throws before any promise exists
CallUninitialised ==
  /\ cpc = "ready"
  /\ ncalls < MaxCalls
  /\ svc = "uninitialised"
  /\ ncalls' = ncalls + 1
  /\ cthrown' = "TypeError"
  /\ UNCHANGED <<svc, ctorArgs, created, tables, request, promise, callbacks,
                 firstCallback, before, cpc>>
  /\ UNCHANGED <<genVars, mainVars>>

Call ==
  /\ cpc = "ready"
  /\ ncalls < MaxCalls
  /\ svc = "TableService"
  /\ \E op \in Ops, table \in TableNames : Invoke(op, table, "undefined")
  /\ ncalls' = ncalls + 1
  /\ cpc' = "awaiting"
  /\ UNCHANGED <<svc, ctorArgs, created, tables, cthrown>>
  /\ UNCHANGED <<genVars, mainVars>>

\* the caller's await returns once the promise is settled
Await ==
  /\ cpc = "awaiting"
  /\ promise.state \in {"resolved", "rejected"}
  /\ cpc' = "ready"
  /\ UNCHANGED <<svc, ctorArgs, created, tables, request, promise, callbacks,
                 firstCallback, before, ncalls, cthrown>>
  /\ UNCHANGED <<genVars, mainVars>>

\* the states table 'test' can be in: absent, empty, holding entities
InitialTables ==
  {NoTables} \cup {[t \in {"test"} |-> n] : n \in 0..MaxEntities}

InitWrapper ==
  /\ tz = 0
  /\ IdleGenerator
  /\ IdleService
  /\ IdleMain
  /\ tables \in InitialTables

NextWrapper ==
  \/ New
  \/ setTableService
  \/ CallUninitialised
  \/ Call
  \/ Await
  \/ ServiceAnswer
  \/ ServiceFault
  \/ CallbackAgain

SpecWrapper == InitWrapper /\ [][NextWrapper]_vars

(***************************************************************************)
(* main.  The queue is the sequence of its messages, each with the index   *)
(* of the reading it carries (0 for a message that was there before) and   *)
(* whether it is visible.                                                  *)
(***************************************************************************)

Message(i) == [id |-> i, visible |-> TRUE]

\* the values of AZURE_STORAGE_CONNECTION_STRING
Environments == {"undefined", "", "str"}

\* const connectionString = process.env...; if (!connectionString) throw
MainStart ==
  /\ mpc = "start"
  /\ IF Truthy(connectionString)
       THEN mpc' = "construct" /\ UNCHANGED mthrown
       ELSE mpc' = "catch" /\ mthrown' = "No connection string found"
  /\ UNCHANGED <<connectionString, log, queueExists, queue, sent, received,
                 interfered, faults>>
  /\ UNCHANGED <<genVars, svcVars>>

\* new PromiseTableService(connectionString)
MainConstruct ==
  /\ mpc = "construct"
  /\ Construct(connectionString, "undefined", "undefined")
  /\ mpc' = "delete"
  /\ UNCHANGED <<tables, request, promise, callbacks, firstCallback, before,
                 ncalls, cpc, cthrown>>
  /\ UNCHANGED <<connectionString, log, mthrown, queueExists, queue, sent,
                 received, interfered, faults>>
  /\ UNCHANGED genVars

\* tableService.<op>('test'), up to the await
MainInvoke(op, next) ==
  /\ Invoke(op, "test", "undefined")
  /\ mpc' = next
  /\ UNCHANGED <<svc, ctorArgs, created, tables, ncalls, cpc, cthrown>>
  /\ UNCHANGED <<connectionString, log, mthrown, queueExists, queue, sent,
                 received, interfered, faults>>
  /\ UNCHANGED genVars

\* the await returns, or throws the error the promise was rejected with
MainAwait(next) ==
  /\ promise.state \in {"resolved", "rejected"}
  /\ IF promise.state = "rejected"
       THEN mpc' = "catch" /\ mthrown' = promise.error
       ELSE mpc' = next /\ UNCHANGED mthrown
  /\ UNCHANGED <<connectionString, log, queueExists, queue, sent, received,
                 interfered, faults>>
  /\ UNCHANGED <<genVars, svcVars>>

\* await tableService.deleteTableIfExists('test')
MainDeleteTableIfExists ==
  /\ mpc = "delete"
  /\ MainInvoke("deleteTableIfExists", "awaitDelete")

MainAwaitDelete ==
  /\ mpc = "awaitDelete"
  /\ MainAwait("create")

\* await tableService.createTable('test')
MainCreateTable ==
  /\ mpc = "create"
  /\ MainInvoke("createTable", "awaitCreate")

MainAwaitCreate ==
  /\ mpc = "awaitCreate"
  /\ MainAwait("queueCreate")

\* new QueueClient(...); await queueClient.create()
MainQueueCreate ==
  /\ mpc = "queueCreate"
  /\ queueExists' = TRUE
  /\ mpc' = "queueClear"
  /\ UNCHANGED <<connectionString, log, mthrown, queue, sent, received,
                 interfered, faults>>
  /\ UNCHANGED <<genVars, svcVars>>

\* await queueClient.clearMessages()
MainClearMessages ==
  /\ mpc = "queueClear"
  /\ queue' = <<>>
  /\ mpc' = "generate"
  /\ UNCHANGED <<connectionString, log, mthrown, queueExists, sent, received,
                 interfered, faults>>
  /\ UNCHANGED <<genVars, svcVars>>

\* generateHourlyData(7) is called
MainGenerate ==
  /\ mpc = "generate"
  /\ gpc = "idle"
  /\ gpc' = "call"
  /\ durationDays' = 7 * 32
  /\ mpc' = "generating"
  /\ UNCHANGED <<tz, startTime, step, length, start, result, samples, calls,
                 thrown>>
  /\ UNCHANGED <<connectionString, log, mthrown, queueExists, queue, sent,
                 received, interfered, faults>>
  /\ UNCHANGED svcVars

\* generateHourlyData has returned; the loop over its readings starts
MainLoop ==
  /\ mpc = "generating"
  /\ gpc = "done"
  /\ mpc' = "send"
  /\ UNCHANGED <<connectionString, log, mthrown, queueExists, queue, sent,
                 received, interfered, faults>>
  /\ UNCHANGED <<genVars, svcVars>>

\* await queueClient.sendMessage(JSON.stringify(outMsg))
MainSend ==
  /\ mpc = "send"
  /\ sent < Len(samples)
  /\ sent' = sent + 1
  /\ queue' = Append(queue, Message(sent + 1))
  /\ mpc' = "receive"
  /\ UNCHANGED <<connectionString, log, mthrown, queueExists, received,
                 interfered, faults>>
  /\ UNCHANGED <<genVars, svcVars>>

Visible == {i \in DOMAIN queue : queue[i].visible}

\* the first visible message
Front == CHOOSE i \in Visible : \A j \in Visible : i <= j

\* await queueClient.receiveMessages() and processMessage of what it returns:
\* one message at most, which becomes invisible and stays in the queue
MainReceive ==
  /\ mpc = "receive"
  /\ IF Visible = {}
       THEN UNCHANGED <<queue, received>>
       ELSE /\ queue' = [queue EXCEPT ![Front].visible = FALSE]
            /\ received' = Append(received, queue[Front].id)
  /\ mpc' = "send"
  /\ UNCHANGED <<connectionString, log, mthrown, queueExists, sent,
                 interfered, faults>>
  /\ UNCHANGED <<genVars, svcVars>>

\* console.log('Done')
MainDone ==
  /\ mpc = "send"
  /\ sent = Len(samples)
  /\ log' = Append(log, "Done")
  /\ mpc' = "exit"
  /\ UNCHANGED <<connectionString, mthrown, queueExists, queue, sent, received,
                 interfered, faults>>
  /\ UNCHANGED <<genVars, svcVars>>

\* main().catch((e) => console.log(e.message))
MainCatch ==
  /\ mpc = "catch"
  /\ log' = Append(log, mthrown)
  /\ mpc' = "exit"
  /\ UNCHANGED <<connectionString, mthrown, queueExists, queue, sent, received,
                 interfered, faults>>
  /\ UNCHANGED <<genVars, svcVars>>

\* another client of the storage account deletes table 'test'
ExternalDeleteTable ==
  /\ mpc \notin {"start", "exit"}
  /\ interfered < MaxInterference
  /\ "test" \in DOMAIN tables
  /\ tables' = Without(tables, "test")
  /\ interfered' = interfered + 1
  /\ UNCHANGED <<svc, ctorArgs, created, request, promise, callbacks,
                 firstCallback, before, ncalls, cpc, cthrown>>
  /\ UNCHANGED <<connectionString, mpc, log, mthrown, queueExists, queue, sent,
                 received, faults>>
  /\ UNCHANGED genVars

\* the queue before main runs: absent, or holding messages of an earlier run
InitialQueues ==
  {[exists |-> FALSE, messages |-> <<>>]} \cup
  {[exists |-> TRUE, messages |-> [i \in 1..n |-> Message(0)]] :
     n \in 0..MaxLeftover}

InitMain ==
  /\ tz \in TimeZones
  /\ IdleGenerator
  /\ IdleService
  /\ tables \in InitialTables
  /\ connectionString \in Environments
  /\ mpc = "start"
  /\ log = <<>>
  /\ mthrown = "none"
  /\ \E q \in InitialQueues : queueExists = q.exists /\ queue = q.messages
  /\ sent = 0
  /\ received = <<>>
  /\ interfered = 0
  /\ faults = 0

NextMain ==
  \/ MainStart
  \/ MainConstruct
  \/ MainDeleteTableIfExists
  \/ MainAwaitDelete
  \/ MainCreateTable
  \/ MainAwaitCreate
  \/ MainQueueCreate
  \/ MainClearMessages
  \/ MainGenerate
  \/ GenCall
  \/ RangeStep
  \/ RangeReturn
  \/ MapStep
  \/ GenReturn
  \/ MainLoop
  \/ MainSend
  \/ MainReceive
  \/ MainDone
  \/ MainCatch
  \/ ServiceAnswer
  \/ ServiceFault
  \/ ExternalDeleteTable

SpecMain == InitMain /\ [][NextMain]_vars

(***************************************************************************)
(* Claims about PromiseTableService                                        *)
(***************************************************************************)

\* C6: once the promise of deleteTableIfExists(table) resolves, the table
\* does not exist, the result is true if the table existed before the call
\* and false otherwise, and no table was created.
C6_DeleteTableIfExists ==
  (request.op = "deleteTableIfExists" /\ promise.state = "resolved") =>
    /\ request.args[1] \notin DOMAIN tables
    /\ promise.result = IF request.args[1] \in DOMAIN before THEN "true"
                        ELSE "false"
    /\ DOMAIN tables \subseteq DOMAIN before

\* the wrapper passes the caller's two arguments and then one callback
OneCallbackLast ==
  request.op # "none" =>
    /\ Len(request.args) = 3
    /\ request.args[3] = "promiseHandling"
    /\ \A i \in 1..2 : request.args[i] # "promiseHandling"

\* the outcome the first invocation (err, result, response) of the callback
\* gives the promise of a wrapper of the given kind
FirstOutcome(kind, cb) ==
  IF cb.err \notin {"null", "undefined", ""}
    THEN [state |-> "rejected", error |-> cb.err, result |-> "none",
          response |-> "none"]
    ELSE [state |-> "resolved", error |-> "none",
          result |-> IF kind = "result" THEN cb.result ELSE "none",
          response |-> cb.response]

\* C7: the wrapper appends exactly one callback as the last argument; the
\* promise is rejected with the error when the TableService function throws
\* before it returns; otherwise it is pending until the callback is invoked
\* and its outcome is the one of the first invocation, whatever later
\* invocations pass.
C7_SettlesOnce ==
  /\ OneCallbackLast
  /\ (promise.state = "pending") <=>
       (request.op # "none" /\ request.thrown = "none" /\ callbacks = 0)
  /\ (request.thrown # "none") =>
       (promise.state = "rejected" /\ promise.error = request.thrown)
  /\ (callbacks >= 1) => (promise = FirstOutcome(request.kind, firstCallback))

\* C7: a callback was invoked with an error and then once more, and the
\* promise is rejected with the first error
C7_Witness ==
  /\ callbacks = 2
  /\ firstCallback.err = "TableAlreadyExists"
  /\ promise.state = "rejected"
  /\ promise.error = "TableAlreadyExists"

\* C7 as stated: the promise stays pending until the callback is invoked,
\* and its outcome is the one of the first invocation.
C7_PendingUntilCallback ==
  /\ OneCallbackLast
  /\ (promise.state = "pending") <=> (request.op # "none" /\ callbacks = 0)
  /\ (callbacks >= 1) => (promise = FirstOutcome(request.kind, firstCallback))

\* the arguments a caller provided: the list without its trailing undefined
RECURSIVE Provided(_)
Provided(a) ==
  IF a = <<>> THEN <<>>
  ELSE IF a[Len(a)] = "undefined" THEN Provided(SubSeq(a, 1, Len(a) - 1))
  ELSE a

\* C8: the constructor leaves the TableService uninitialised only when
\* connectionString is null, and otherwise calls createTableService once
\* with exactly the arguments that were provided.
C8_ConstructorArguments ==
  ctorArgs # <<>> =>
    /\ (created = <<>>) <=> (ctorArgs[1] = "null")
    /\ created # <<>> =>
         (Len(created) = 1 /\ Provided(created[1]) = Provided(ctorArgs))

(***************************************************************************)
(* Claims about main                                                       *)
(***************************************************************************)

\* C10: with a connection string set, no faulty answer and no other client,
\* main ends having logged 'Done' and nothing else, after 168 messages were
\* sent, and table 'test' exists and is empty.
C10_SetupSucceeds ==
  (mpc = "exit" /\ Truthy(connectionString) /\ faults = 0 /\ interfered = 0) =>
    /\ log = <<"Done">>
    /\ sent = 168
    /\ "test" \in DOMAIN tables
    /\ tables["test"] = 0

\* C11: in the queue phase the readings are sent in ascending order of
\* their dates, and whenever main is about to send the next reading or has
\* logged 'Done', every reading sent so far was received, in the order sent,
\* and its message is no longer in the queue; at 'Done' the queue holds no
\* message at all.
C11_QueueDrained ==
  (mpc = "send" \/ (mpc = "exit" /\ log = <<"Done">>)) =>
    /\ \A i \in 1..(sent - 1) : Less(samples[i].date, samples[i + 1].date)
    /\ received = [i \in 1..sent |-> i]
    /\ \A j \in DOMAIN queue : queue[j].id \notin 1..sent
    /\ (mpc = "exit" => (sent = Len(samples) /\ queue = <<>>))

====
